---- MODULE Spec2Model ----
(***************************************************************************)
(* Model of the file-based test harness: TestParser, TestRunner and main   *)
(* of test_framework.py, and the /run-tests handler of app.py.             *)
(*                                                                         *)
(* Text is a sequence of tokens.  A token stands for a fixed string of     *)
(* characters: a single character ("a", "b", "B", "1", "(", ",", " ",      *)
(* "\n", a double quote), or one of the words the code looks for           *)
(* ("### TEST:", "INPUT:", "TYPE:", the names of the comparison modes,     *)
(* ...).  '#' occurs only in DELIM and in HASHES, whitespace only in SP,   *)
(* NL and inside DELIM, and no token is the beginning of a keyword, so     *)
(* str.strip and str.startswith on the characters agree with the           *)
(* token-level operators below.  The delimiter is written as the token     *)
(* DELIM or in its pieces HASHES, SP, TESTW: split_delim finds both.  The  *)
(* comparator works on the characters (Chars, Expand).                     *)
(***************************************************************************)
EXTENDS Integers, Sequences, FiniteSets, TLC

VARIABLES
    content,      \* text of the test file read by parse_file
    driver,       \* "main" (test_framework.main) or "web" (app.run_tests)
    argTags,      \* main: args.tags, empty when the option is absent
    pc,           \* driver position: "parse", "loop", "in_run", "done";
                  \* "scan", "scanned" inside _parse_test_section
    scan,         \* locals of _parse_test_section: fields, block, buffer
    remaining,    \* the lines its loop has still to read
    all_tests,    \* main: all_tests, web: test_cases
    results,      \* the list the driver loop appends to
    returned,     \* the TestResults run_test has returned, in call order
    phase,        \* per invocation of run_test: how far it has got
    launches,     \* per invocation: how often subprocess.run was entered
    cmd,          \* command line built by the latest invocation
    shell,        \* per invocation: the process subprocess.run started
    child,        \* per invocation: a process that shell forked
    duration,     \* per invocation: seconds its command needs to finish
    stdout,       \* raw standard output read by the latest invocation
    stderr,       \* what its command wrote to standard error
    returncode,   \* the exit status of its command
    exc,          \* per invocation: the exception raised in it, or NoExc
    outcome       \* main: exit status, web: the JSON response

vars == <<content, driver, argTags, pc, scan, remaining, all_tests, results,
          returned, phase, launches, cmd, shell, child, duration, stdout, stderr,
          returncode, exc, outcome>>

----------------------------------------------------------------------------
(* Tokens *)

DELIM == "### TEST:"
(* the delimiter written in pieces: HASHES, SP, TESTW *)
HASHES == "###"
TESTW == "TEST:"
NL == "\n"
SP == " "
KW_DESCRIPTION == "DESCRIPTION:"
KW_INPUT == "INPUT:"
KW_EXPECTED == "EXPECTED:"
KW_TYPE == "TYPE:"
KW_TAGS == "TAGS:"
COMMA == ","
QUOTE == "\""
PLACEHOLDER == "{input}"
(* a byte that is not valid in the encoding text=True decodes with *)
BADBYTE == "0xff"
BACKSLASH == "\\"

IsSpace(t) == t \in {SP, NL}

(* str.lower on a token *)
LowerTok(t) ==
    CASE t = "B" -> "b"
      [] t = "REGEX" -> "regex"
      [] t = "JSON" -> "json"
      [] t = KW_DESCRIPTION -> "description:"
      [] t = KW_INPUT -> "input:"
      [] t = KW_EXPECTED -> "expected:"
      [] t = KW_TYPE -> "type:"
      [] t = KW_TAGS -> "tags:"
      [] t = TESTW -> "test:"
      [] OTHER -> t

(* a TYPE: value kept in the case it was written in *)
keepcase(s) == s

lower(s) == [i \in 1..Len(s) |-> LowerTok(s[i])]

----------------------------------------------------------------------------
(* Python str operations on token sequences *)

RECURSIVE lstrip(_)
lstrip(s) ==
    IF Len(s) > 0 /\ IsSpace(s[1]) THEN lstrip(Tail(s)) ELSE s

RECURSIVE rstrip(_)
rstrip(s) ==
    IF Len(s) > 0 /\ IsSpace(s[Len(s)])
    THEN rstrip(SubSeq(s, 1, Len(s) - 1)) ELSE s

strip(s) == rstrip(lstrip(s))

(* s.split(sep): always at least one piece, "" included *)
RECURSIVE split(_, _)
split(s, sep) ==
    IF \E i \in 1..Len(s) : s[i] = sep
    THEN LET i == CHOOSE k \in 1..Len(s) :
                      s[k] = sep /\ \A j \in 1..(k - 1) : s[j] # sep
         IN  <<SubSeq(s, 1, i - 1)>> \o split(SubSeq(s, i + 1, Len(s)), sep)
    ELSE <<s>>

(* '\n'.join(lines) *)
RECURSIVE join(_)
join(lines) ==
    IF Len(lines) = 0 THEN <<>>
    ELSE IF Len(lines) = 1 THEN lines[1]
    ELSE lines[1] \o <<NL>> \o join(Tail(lines))

(* s.startswith(kw) for a keyword token kw *)
startswith(s, kw) == Len(s) > 0 /\ s[1] = kw

(* s[len(kw):] for a line that starts with the keyword *)
AfterKeyword(s) == Tail(s)

----------------------------------------------------------------------------
(* TestParser *)

FilePath == "f.test"

TestCase(name, description, input_data, expected_output, test_type, file_path, tags) ==
    [name |-> name, description |-> description, input_data |-> input_data,
     expected_output |-> expected_output, test_type |-> test_type,
     file_path |-> file_path, line_number |-> 0, tags |-> tags]

(* Locals of _parse_test_section before its loop *)
ScanInit ==
    [description |-> <<>>, input_data |-> <<>>, expected_output |-> <<>>,
     test_type |-> <<"exact">>, tags |-> <<>>,
     current_block |-> "None", block_content |-> <<>>]

(* a save that leaves the field alone when the block is empty *)
SaveBlockUnlessEmpty(st) ==
    LET text == strip(join(st.block_content)) IN
    IF text = <<>> THEN st
    ELSE CASE st.current_block = "description" -> [st EXCEPT !.description = text]
           [] st.current_block = "input" -> [st EXCEPT !.input_data = text]
           [] st.current_block = "expected" -> [st EXCEPT !.expected_output = text]
           [] OTHER -> st

(* "Save previous block": the if/elif chain on current_block *)
SaveBlock(st) ==
    LET text == strip(join(st.block_content)) IN
    CASE st.current_block = "description" -> [st EXCEPT !.description = text]
      [] st.current_block = "input" -> [st EXCEPT !.input_data = text]
      [] st.current_block = "expected" -> [st EXCEPT !.expected_output = text]
      [] OTHER -> st

(* a keyword line whose own text is not taken into the block *)
OpenBlockNoSeed(st, block, stripped) ==
    [SaveBlock(st) EXCEPT !.current_block = block, !.block_content = <<>>]

(* A block keyword line: save, switch block, seed the buffer *)
OpenBlock(st, block, stripped) ==
    LET value == strip(AfterKeyword(stripped)) IN
    [SaveBlock(st) EXCEPT !.current_block = block,
                          !.block_content = IF value # <<>> THEN <<value>> ELSE <<>>]

(* [t.strip() for t in rest.split(',')] *)
ParseTags(rest) ==
    LET parts == split(rest, COMMA) IN
    [i \in 1..Len(parts) |-> strip(parts[i])]

(* a loop body that also keeps the blank lines of a block *)
ScanLineKeepsBlank(st, line) ==
    LET stripped == strip(line) IN
    IF startswith(stripped, KW_DESCRIPTION) THEN OpenBlock(st, "description", stripped)
    ELSE IF startswith(stripped, KW_INPUT) THEN OpenBlock(st, "input", stripped)
    ELSE IF startswith(stripped, KW_EXPECTED) THEN OpenBlock(st, "expected", stripped)
    ELSE IF startswith(stripped, KW_TYPE)
         THEN [st EXCEPT !.test_type = lower(strip(AfterKeyword(stripped)))]
    ELSE IF startswith(stripped, KW_TAGS)
         THEN [st EXCEPT !.tags = ParseTags(AfterKeyword(stripped))]
    ELSE IF st.current_block # "None"
         THEN [st EXCEPT !.block_content = Append(@, stripped)]
    ELSE st

(* a loop body in which a blank line closes the block it is in *)
ScanLineBlankEndsBlock(st, line) ==
    LET stripped == strip(line) IN
    IF startswith(stripped, KW_DESCRIPTION) THEN OpenBlock(st, "description", stripped)
    ELSE IF startswith(stripped, KW_INPUT) THEN OpenBlock(st, "input", stripped)
    ELSE IF startswith(stripped, KW_EXPECTED) THEN OpenBlock(st, "expected", stripped)
    ELSE IF startswith(stripped, KW_TYPE)
         THEN [st EXCEPT !.test_type = lower(strip(AfterKeyword(stripped)))]
    ELSE IF startswith(stripped, KW_TAGS)
         THEN [st EXCEPT !.tags = ParseTags(AfterKeyword(stripped))]
    ELSE IF stripped # <<>>
         THEN IF st.current_block # "None"
              THEN [st EXCEPT !.block_content = Append(@, stripped)]
              ELSE st
    ELSE [SaveBlock(st) EXCEPT !.current_block = "None", !.block_content = <<>>]

(* a loop body in which a TYPE: or TAGS: line closes the block it is in *)
ScanLineMetaEndsBlock(st, line) ==
    LET stripped == strip(line) IN
    IF startswith(stripped, KW_DESCRIPTION) THEN OpenBlock(st, "description", stripped)
    ELSE IF startswith(stripped, KW_INPUT) THEN OpenBlock(st, "input", stripped)
    ELSE IF startswith(stripped, KW_EXPECTED) THEN OpenBlock(st, "expected", stripped)
    ELSE IF startswith(stripped, KW_TYPE)
         THEN [SaveBlock(st) EXCEPT !.test_type = lower(strip(AfterKeyword(stripped))),
                                    !.current_block = "None", !.block_content = <<>>]
    ELSE IF startswith(stripped, KW_TAGS)
         THEN [SaveBlock(st) EXCEPT !.tags = ParseTags(AfterKeyword(stripped)),
                                    !.current_block = "None", !.block_content = <<>>]
    ELSE IF stripped # <<>>
         THEN IF st.current_block # "None"
              THEN [st EXCEPT !.block_content = Append(@, stripped)]
              ELSE st
    ELSE st

(* One iteration of the loop over lines[1:] *)
ScanLine(st, line) ==
    LET stripped == strip(line) IN
    IF startswith(stripped, KW_DESCRIPTION) THEN OpenBlock(st, "description", stripped)
    ELSE IF startswith(stripped, KW_INPUT) THEN OpenBlock(st, "input", stripped)
    ELSE IF startswith(stripped, KW_EXPECTED) THEN OpenBlock(st, "expected", stripped)
    ELSE IF startswith(stripped, KW_TYPE)
         THEN [st EXCEPT !.test_type = lower(strip(AfterKeyword(stripped)))]
    ELSE IF startswith(stripped, KW_TAGS)
         THEN [st EXCEPT !.tags = ParseTags(AfterKeyword(stripped))]
    ELSE IF stripped # <<>>
         THEN IF st.current_block # "None"
              THEN [st EXCEPT !.block_content = Append(@, stripped)]
              ELSE st
    ELSE st

RECURSIVE ScanLines(_, _)
ScanLines(st, lines) ==
    IF Len(lines) = 0 THEN st ELSE ScanLines(ScanLine(st, lines[1]), Tail(lines))

(* _parse_test_section: a sequence holding the TestCase, empty for None.   *)
(* section.strip().split('\n') is never an empty list, so the              *)
(* "if not lines" branch only guards a list that cannot occur.             *)
parse_test_section(section, file_path) ==
    LET lines == split(strip(section), NL) IN
    IF Len(lines) = 0 THEN <<>>
    ELSE LET name == strip(lines[1])
             st == SaveBlock(ScanLines(ScanInit, Tail(lines)))
         IN  <<TestCase(name, st.description, st.input_data, st.expected_output,
                        st.test_type, file_path, st.tags)>>

(* a parser that gives up at the first section without a name *)
RECURSIVE ParseSectionsStopAtUnnamed(_, _)
ParseSectionsStopAtUnnamed(sections, file_path) ==
    IF Len(sections) = 0 THEN <<>>
    ELSE LET tc == parse_test_section(sections[1], file_path)
         IN  IF Len(tc) > 0 /\ tc[1].name = <<>> THEN <<>>
             ELSE tc \o ParseSectionsStopAtUnnamed(Tail(sections), file_path)

(* the loop of parse_file over sections[1:] *)
RECURSIVE ParseSections(_, _)
ParseSections(sections, file_path) ==
    IF Len(sections) = 0 THEN <<>>
    ELSE parse_test_section(sections[1], file_path)
             \o ParseSections(Tail(sections), file_path)

(* the number of tokens of the delimiter s begins with, 0 when it begins  *)
(* with none                                                               *)
DelimiterAt(s) ==
    IF Len(s) >= 1 /\ s[1] = DELIM THEN 1
    ELSE IF Len(s) >= 3 /\ s[1] = HASHES /\ s[2] = SP /\ s[3] = TESTW THEN 3
    ELSE 0

(* a split that knows the delimiter only at the start of a line *)
RECURSIVE SplitAtLineStart(_, _)
SplitAtLineStart(s, atStart) ==
    IF Len(s) = 0 THEN << <<>> >>
    ELSE IF atStart /\ DelimiterAt(s) > 0
         THEN << <<>> >> \o SplitAtLineStart(SubSeq(s, DelimiterAt(s) + 1, Len(s)), FALSE)
    ELSE LET pieces == SplitAtLineStart(Tail(s), s[1] = NL)
         IN  << <<s[1]>> \o pieces[1] >> \o Tail(pieces)

split_delim_line_start(s) == SplitAtLineStart(s, TRUE)

(* content.split('### TEST:'): the text is cut at every occurrence of the  *)
(* delimiter's characters, found from left to right                        *)
RECURSIVE split_delim(_)
split_delim(s) ==
    IF Len(s) = 0 THEN << <<>> >>
    ELSE IF DelimiterAt(s) > 0
         THEN << <<>> >> \o split_delim(SubSeq(s, DelimiterAt(s) + 1, Len(s)))
    ELSE LET pieces == split_delim(Tail(s))
         IN  << <<s[1]>> \o pieces[1] >> \o Tail(pieces)

(* a parse_file that keeps sections[0], the text before the first delimiter *)
parse_file_all_sections(text, file_path) ==
    ParseSections(split_delim(text), file_path)

(* parse_file on the text of the file: content.split('### TEST:')[1:] *)
parse_file(text, file_path) ==
    ParseSections(Tail(split_delim(text)), file_path)

----------------------------------------------------------------------------
(* Comparator: _compare_output works on the characters of the two strings *)

Chars(t) ==
    CASE t = DELIM -> <<"#", "#", "#", " ", "T", "E", "S", "T", ":">>
      [] t = KW_DESCRIPTION -> <<"D", "E", "S", "C", "R", "I", "P", "T", "I", "O", "N", ":">>
      [] t = KW_INPUT -> <<"I", "N", "P", "U", "T", ":">>
      [] t = KW_EXPECTED -> <<"E", "X", "P", "E", "C", "T", "E", "D", ":">>
      [] t = KW_TYPE -> <<"T", "Y", "P", "E", ":">>
      [] t = KW_TAGS -> <<"T", "A", "G", "S", ":">>
      [] t = PLACEHOLDER -> <<"{", "i", "n", "p", "u", "t", "}">>
      [] t = "exact" -> <<"e", "x", "a", "c", "t">>
      [] t = "contains" -> <<"c", "o", "n", "t", "a", "i", "n", "s">>
      [] t = "regex" -> <<"r", "e", "g", "e", "x">>
      [] t = "json" -> <<"j", "s", "o", "n">>
      [] t = "REGEX" -> <<"R", "E", "G", "E", "X">>
      [] t = "JSON" -> <<"J", "S", "O", "N">>
      [] t = "echo" -> <<"e", "c", "h", "o">>
      [] t = "description:" -> <<"d", "e", "s", "c", "r", "i", "p", "t", "i", "o", "n", ":">>
      [] t = "input:" -> <<"i", "n", "p", "u", "t", ":">>
      [] t = "expected:" -> <<"e", "x", "p", "e", "c", "t", "e", "d", ":">>
      [] t = "type:" -> <<"t", "y", "p", "e", ":">>
      [] t = "tags:" -> <<"t", "a", "g", "s", ":">>
      [] t = HASHES -> <<"#", "#", "#">>
      [] t = TESTW -> <<"T", "E", "S", "T", ":">>
      [] t = "test:" -> <<"t", "e", "s", "t", ":">>
      [] OTHER -> <<t>>

RECURSIVE Expand(_)
Expand(s) == IF Len(s) = 0 THEN <<>> ELSE Chars(s[1]) \o Expand(Tail(s))

(* a in b on character sequences *)
Contains(a, b) ==
    \E off \in 0..(Len(b) - Len(a)) : \A i \in 1..Len(a) : b[off + i] = a[i]

(* re: the patterns of the model are built from literal characters, the    *)
(* wildcard "." and the group parentheses; a pattern compiles exactly when *)
(* its parentheses balance, and re.error is raised otherwise.              *)
RECURSIVE ParenDepthOk(_, _)
ParenDepthOk(p, depth) ==
    IF Len(p) = 0 THEN depth = 0
    ELSE IF p[1] = "(" THEN ParenDepthOk(Tail(p), depth + 1)
    ELSE IF p[1] = ")" THEN depth > 0 /\ ParenDepthOk(Tail(p), depth - 1)
    ELSE ParenDepthOk(Tail(p), depth)

RegexCompiles(p) == ParenDepthOk(p, 0)

IsParen(c) == c \in {"(", ")"}

RECURSIVE RegexAtoms(_)
RegexAtoms(p) ==
    IF Len(p) = 0 THEN <<>>
    ELSE IF IsParen(p[1]) THEN RegexAtoms(Tail(p))
    ELSE <<p[1]>> \o RegexAtoms(Tail(p))

(* bool(re.search(p, s)) for a pattern that compiles *)
re_search(p, s) ==
    LET atoms == RegexAtoms(p) IN
    \E off \in 0..(Len(s) - Len(atoms)) :
        \A i \in 1..Len(atoms) :
            IF atoms[i] = "." THEN s[off + i] # NL ELSE s[off + i] = atoms[i]

(* json.loads on the characters of a document: integers written in        *)
(* digits, the literals true and false, strings between double quotes,     *)
(* arrays and objects, with whitespace between the tokens.  A value is a   *)
(* record [t, v]: t is the Python type json.loads builds ("int", "bool",   *)
(* "str", "list", "dict") and v its content; a dict keeps its members as   *)
(* <<key, value>> pairs in the order read, the last pair of a key being    *)
(* the one the dict holds.  Every other text raises JSONDecodeError.       *)
Digits == {"0", "1", "2", "3", "4", "5", "6", "7", "8", "9"}

JsonFail == [ok |-> FALSE, value |-> <<>>, next |-> 0]

JsonOk(t, v, next) == [ok |-> TRUE, value |-> [t |-> t, v |-> v], next |-> next]

RECURSIVE SkipWs(_, _)
SkipWs(s, i) == IF i <= Len(s) /\ IsSpace(s[i]) THEN SkipWs(s, i + 1) ELSE i

RECURSIVE DigitsEnd(_, _)
DigitsEnd(s, i) == IF i <= Len(s) /\ s[i] \in Digits THEN DigitsEnd(s, i + 1) ELSE i

At(s, i, c) == i <= Len(s) /\ s[i] = c

ParseInt(s, i) ==
    LET j == DigitsEnd(s, i)
    IN  IF j - i > 1 /\ s[i] = "0" THEN JsonFail
        ELSE JsonOk("int", SubSeq(s, i, j - 1), j)

ParseString(s, i) ==
    LET closing == {j \in (i + 1)..Len(s) : s[j] = QUOTE}
        j == CHOOSE q \in closing : \A r \in closing : q <= r
    IN  IF closing = {} THEN JsonFail
        ELSE IF \E k \in (i + 1)..(j - 1) : s[k] = NL THEN JsonFail
        ELSE JsonOk("str", SubSeq(s, i + 1, j - 1), j + 1)

RECURSIVE ParseValue(_, _), ParseElements(_, _, _), ParseMembers(_, _, _)
ParseValue(s, i) ==
    IF i > Len(s) THEN JsonFail
    ELSE IF s[i] \in Digits THEN ParseInt(s, i)
    ELSE IF s[i] = "true" THEN JsonOk("bool", TRUE, i + 1)
    ELSE IF s[i] = "false" THEN JsonOk("bool", FALSE, i + 1)
    ELSE IF s[i] = QUOTE THEN ParseString(s, i)
    ELSE IF s[i] = "["
         THEN LET j == SkipWs(s, i + 1)
              IN  IF At(s, j, "]") THEN JsonOk("list", <<>>, j + 1)
                  ELSE ParseElements(s, j, <<>>)
    ELSE IF s[i] = "{"
         THEN LET j == SkipWs(s, i + 1)
              IN  IF At(s, j, "}") THEN JsonOk("dict", <<>>, j + 1)
                  ELSE ParseMembers(s, j, <<>>)
    ELSE JsonFail

ParseElements(s, i, acc) ==
    LET r == ParseValue(s, i)
        j == SkipWs(s, r.next)
    IN  IF ~r.ok THEN JsonFail
        ELSE IF At(s, j, COMMA)
             THEN ParseElements(s, SkipWs(s, j + 1), Append(acc, r.value))
        ELSE IF At(s, j, "]") THEN JsonOk("list", Append(acc, r.value), j + 1)
        ELSE JsonFail

ParseMembers(s, i, acc) ==
    LET key == IF At(s, i, QUOTE) THEN ParseString(s, i) ELSE JsonFail
        colon == SkipWs(s, key.next)
        r == IF key.ok /\ At(s, colon, ":")
             THEN ParseValue(s, SkipWs(s, colon + 1)) ELSE JsonFail
        j == SkipWs(s, r.next)
        members == Append(acc, <<key.value.v, r.value>>)
    IN  IF ~r.ok THEN JsonFail
        ELSE IF At(s, j, COMMA) THEN ParseMembers(s, SkipWs(s, j + 1), members)
        ELSE IF At(s, j, "}") THEN JsonOk("dict", members, j + 1)
        ELSE JsonFail

JsonLoads(s) ==
    LET r == ParseValue(s, SkipWs(s, 1))
    IN  IF r.ok /\ SkipWs(s, r.next) = Len(s) + 1
        THEN [ok |-> TRUE, value |-> r.value]
        ELSE [ok |-> FALSE, value |-> <<>>]

(* == on the values json.loads returns: bool is a subclass of int, True    *)
(* equals 1 and False equals 0; lists compare element by element in order, *)
(* dicts by their keys and the value each key holds                        *)
IsNumber(x) == x.t \in {"int", "bool"}

NumberOf(x) == IF x.t = "bool" THEN (IF x.v THEN <<"1">> ELSE <<"0">>) ELSE x.v

DictKeys(x) == {x.v[n][1] : n \in 1..Len(x.v)}

DictGet(x, k) ==
    LET at == {n \in 1..Len(x.v) : x.v[n][1] = k}
    IN  x.v[CHOOSE n \in at : \A m \in at : m <= n][2]

RECURSIVE PyEq(_, _)
PyEq(x, y) ==
    IF IsNumber(x) /\ IsNumber(y) THEN NumberOf(x) = NumberOf(y)
    ELSE IF x.t # y.t THEN FALSE
    ELSE IF x.t = "list"
         THEN /\ Len(x.v) = Len(y.v)
              /\ \A n \in 1..Len(x.v) : PyEq(x.v[n], y.v[n])
    ELSE IF x.t = "dict"
         THEN /\ DictKeys(x) = DictKeys(y)
              /\ \A k \in DictKeys(x) : PyEq(DictGet(x, k), DictGet(y, k))
    ELSE x.v = y.v

(* _compare_output raises re.error for a pattern that does not compile *)
CompareRaises(expected, actual, test_type) ==
    /\ test_type = <<"regex">>
    /\ ~RegexCompiles(Expand(strip(expected)))

(* a comparator that looks for the actual output inside the expected one *)
compare_output_reversed(expected, actual, test_type) ==
    LET e == Expand(strip(expected))
        a == Expand(strip(actual))
    IN  IF test_type = <<"exact">> THEN e = a
        ELSE IF test_type = <<"contains">> THEN Contains(a, e)
        ELSE IF test_type = <<"regex">> THEN re_search(e, a)
        ELSE IF test_type = <<"json">>
             THEN LET ej == JsonLoads(e)
                      aj == JsonLoads(a)
                  IN  IF ej.ok /\ aj.ok THEN PyEq(ej.value, aj.value) ELSE FALSE
        ELSE e = a

(* a comparator that reads the mode without regard to case *)
compare_output_any_case(expected, actual, test_type) ==
    LET e == Expand(strip(expected))
        a == Expand(strip(actual))
    IN  IF lower(test_type) = <<"exact">> THEN e = a
        ELSE IF lower(test_type) = <<"contains">> THEN Contains(e, a)
        ELSE IF lower(test_type) = <<"regex">> THEN re_search(e, a)
        ELSE IF lower(test_type) = <<"json">>
             THEN LET ej == JsonLoads(e)
                      aj == JsonLoads(a)
                  IN  IF ej.ok /\ aj.ok THEN PyEq(ej.value, aj.value) ELSE FALSE
        ELSE e = a

(* _compare_output when it returns *)
compare_output(expected, actual, test_type) ==
    LET e == Expand(strip(expected))
        a == Expand(strip(actual))
    IN  IF test_type = <<"exact">> THEN e = a
        ELSE IF test_type = <<"contains">> THEN Contains(e, a)
        ELSE IF test_type = <<"regex">> THEN re_search(e, a)
        ELSE IF test_type = <<"json">>
             THEN LET ej == JsonLoads(e)
                      aj == JsonLoads(a)
                  IN  IF ej.ok /\ aj.ok THEN PyEq(ej.value, aj.value) ELSE FALSE
        ELSE e = a

----------------------------------------------------------------------------
(* TestRunner *)

Timeout == 30

NoExc == "none"

(* str(e) of the exceptions run_test catches *)
ExcStr(e) ==
    CASE e = "OSError" -> "[Errno 12] Cannot allocate memory"
      [] e = "TimeoutExpired" -> "Command timed out after 30 seconds"
      [] e = "UnicodeDecodeError" -> "'utf-8' codec can't decode byte"
      [] e = "re.error" -> "missing ), unterminated subpattern"
      [] OTHER -> ""

CommandTemplate == <<"echo", SP, PLACEHOLDER>>

(* input_data.replace('"', '""') *)
RECURSIVE EscapeQuotes(_)
EscapeQuotes(s) ==
    IF Len(s) = 0 THEN <<>>
    ELSE (IF s[1] = QUOTE THEN <<QUOTE, QUOTE>> ELSE <<s[1]>>) \o EscapeQuotes(Tail(s))

(* template.replace('{input}', '"' + escaped + '"') *)
RECURSIVE ReplacePlaceholder(_, _)
ReplacePlaceholder(template, quoted) ==
    IF Len(template) = 0 THEN <<>>
    ELSE (IF template[1] = PLACEHOLDER THEN quoted ELSE <<template[1]>>)
             \o ReplacePlaceholder(Tail(template), quoted)

BuildCommand(template, input_data) ==
    ReplacePlaceholder(template, <<QUOTE>> \o EscapeQuotes(input_data) \o <<QUOTE>>)

(* shell=True: subprocess.run hands the command line to /bin/sh -c, which  *)
(* cuts it into commands (at an unquoted newline) and each command into    *)
(* words (at unquoted blanks).  A double quote opens or closes quoting; a  *)
(* backslash takes the next character literally outside quotes, and inside *)
(* quotes when that character is a double quote or a backslash.  ShStep    *)
(* reads one character, ShRead the whole line: the commands sh runs, and   *)
(* error when the line ends inside quotes, where sh gives up with a syntax *)
(* error after the commands it has read in full.                           *)
ShStart ==
    [commands |-> <<>>, words |-> <<>>, word |-> <<>>, started |-> FALSE,
     quoted |-> FALSE, escaped |-> FALSE]

EndWord(st) ==
    IF st.started
    THEN [st EXCEPT !.words = Append(@, st.word), !.word = <<>>, !.started = FALSE]
    ELSE st

EndCommand(st) ==
    LET w == EndWord(st)
    IN  IF w.words = <<>> THEN w
        ELSE [w EXCEPT !.commands = Append(@, w.words), !.words = <<>>]

ShStep(st, c) ==
    IF st.escaped
    THEN IF c = NL THEN [st EXCEPT !.escaped = FALSE]
         ELSE IF st.quoted /\ c \notin {QUOTE, BACKSLASH}
              THEN [st EXCEPT !.escaped = FALSE, !.word = @ \o <<BACKSLASH, c>>]
         ELSE [st EXCEPT !.escaped = FALSE, !.word = Append(@, c)]
    ELSE IF c = BACKSLASH THEN [st EXCEPT !.escaped = TRUE, !.started = TRUE]
    ELSE IF c = QUOTE THEN [st EXCEPT !.quoted = ~@, !.started = TRUE]
    ELSE IF st.quoted THEN [st EXCEPT !.word = Append(@, c)]
    ELSE IF c = SP THEN EndWord(st)
    ELSE IF c = NL THEN EndCommand(st)
    ELSE [st EXCEPT !.word = Append(@, c), !.started = TRUE]

RECURSIVE ShScan(_, _)
ShScan(st, line) ==
    IF Len(line) = 0 THEN st ELSE ShScan(ShStep(st, line[1]), Tail(line))

ShRead(line) ==
    LET st == ShScan(ShStart, line)
    IN  [commands |-> IF st.quoted THEN st.commands ELSE EndCommand(st).commands,
         error |-> st.quoted]

TestResult(test_case, passed, actual_output, error_message, execution_time) ==
    [test_case |-> test_case, passed |-> passed, actual_output |-> actual_output,
     error_message |-> error_message, execution_time |-> execution_time]

(* the "except Exception as e" branch of run_test *)
FailureResult(test_case, e, elapsed) ==
    TestResult(test_case, FALSE, <<>>, ExcStr(e), elapsed)

(* a run without the timeout argument *)
TimeoutNever(d) == FALSE

(* subprocess.run(..., timeout=30): the wait is cut at the ceiling *)
TimeoutExpires(d) == d > Timeout

WaitTime(d) == IF TimeoutExpires(d) THEN Timeout ELSE d

(* the exception raised inside the try block of run_test, NoExc if none:  *)
(* e is what _execute_command raised, out what it returned otherwise       *)
TryRaises(test_case, e, out) ==
    IF e # NoExc THEN e
    ELSE IF CompareRaises(test_case.expected_output, strip(out), test_case.test_type)
    THEN "re.error"
    ELSE NoExc

(* a handler that only expects the timeout *)
CatchesTimeoutOnly(e) == e = "TimeoutExpired"

(* a handler written for the failures of the command alone *)
CatchesExecutionErrors(e) == e \in {"OSError", "TimeoutExpired", "UnicodeDecodeError"}

(* "except Exception": each of these classes derives from Exception *)
Catches(e) == e \in {"OSError", "TimeoutExpired", "UnicodeDecodeError", "re.error"}

(* run_test with the arguments of the comparison swapped *)
run_test_swapped(test_case, e, out, elapsed) ==
    LET raised == TryRaises(test_case, e, out)
        actual_output == strip(out)
    IN  IF raised # NoExc THEN FailureResult(test_case, raised, elapsed)
        ELSE TestResult(test_case,
                        compare_output(actual_output, test_case.expected_output,
                                       test_case.test_type),
                        actual_output, "", elapsed)

(* the TestResult run_test returns, given what its try block raised *)
run_test(test_case, e, out, elapsed) ==
    LET raised == TryRaises(test_case, e, out)
        actual_output == strip(out)
    IN  IF raised # NoExc THEN FailureResult(test_case, raised, elapsed)
        ELSE TestResult(test_case,
                        compare_output(test_case.expected_output, actual_output,
                                       test_case.test_type),
                        actual_output, "", elapsed)

----------------------------------------------------------------------------
(* Inputs *)

MaxTests == 2

MaxLen == 6

NoTags == <<>>

(* a well-formed section as it is written in a .test file *)
Render(type, expected, tags) ==
    <<DELIM, SP, "a", NL>>
        \o (IF type # <<>> THEN <<KW_TYPE, SP>> \o type \o <<NL>> ELSE <<>>)
        \o (IF tags # <<>> THEN <<KW_TAGS, SP>> \o tags \o <<NL>> ELSE <<>>)
        \o <<KW_INPUT, NL, "a", NL, KW_EXPECTED, NL>> \o expected \o <<NL, NL>>

(* a section with nothing but whitespace after the delimiter *)
EmptySection == <<DELIM, NL>>

(* TYPE: value and EXPECTED: body of the sections of the test files *)
SectionShapes ==
    { <<<<>>, <<>>>>, <<<<"contains">>, <<"1">>>>,
      <<<<"REGEX">>, <<"1">>>>, <<<<"REGEX">>, <<"(">>>>,
      <<<<"json">>, <<"1">>>>, <<<<"B">>, <<"1">>>> }

SectionTexts ==
    {Render(sh[1], sh[2], <<>>) : sh \in SectionShapes}
        \cup {Render(<<>>, <<"1">>, <<"a", COMMA, SP, "b">>)}
        \cup {EmptySection}

RECURSIVE FileTexts(_)
FileTexts(n) ==
    IF n = 0 THEN {<<>>}
    ELSE LET shorter == FileTexts(n - 1)
         IN  shorter \cup {t \o sec : t \in shorter, sec \in SectionTexts}

(* every text of at most MaxLen tokens over the parser's alphabet *)
ParseAlphabet == {DELIM, NL, SP, "a", KW_INPUT}

TokenTexts == UNION {[1..n -> ParseAlphabet] : n \in 0..MaxLen}

(* file texts in which the delimiter is also written in pieces, so that   *)
(* its characters can stand anywhere and incomplete: every text of at most *)
(* MaxPieces tokens                                                        *)
MaxPieces == 6

DelimAlphabet == {DELIM, HASHES, TESTW, SP, NL, KW_INPUT, "a"}

(* the bodies an author may write under a block keyword: every text of at *)
(* most MaxBody tokens, blank lines and indentation included               *)
MaxBody == 4

BodyAlphabet == {"a", SP, NL}

Bodies == UNION {[1..n -> BodyAlphabet] : n \in 0..MaxBody}

(* the TYPE: and TAGS: lines of a section, as in sample_math.test *)
MetaLines == <<KW_TYPE, SP, "contains", NL, KW_TAGS, SP, "a", COMMA, SP, "b", NL>>

(* a well-formed section: the name line, the optional TYPE: and TAGS:      *)
(* lines, then a DESCRIPTION, an INPUT and an EXPECTED block, each keyword *)
(* on a line of its own with the body d, i, e below it                     *)
WellFormed(d, i, e, meta) ==
    <<DELIM, SP, "a", NL>>
        \o (IF meta THEN MetaLines ELSE <<>>)
        \o <<KW_DESCRIPTION, NL>> \o d
        \o <<NL, KW_INPUT, NL>> \o i
        \o <<NL, KW_EXPECTED, NL>> \o e \o <<NL>>

(* one block takes any body, the other two keep a one-line body *)
WellFormedSections ==
    {WellFormed(b, <<"b">>, <<"1">>, m) : b \in Bodies, m \in BOOLEAN}
        \cup {WellFormed(<<"a">>, b, <<"1">>, m) : b \in Bodies, m \in BOOLEAN}
        \cup {WellFormed(<<"a">>, <<"b">>, b, m) : b \in Bodies, m \in BOOLEAN}

(* the blocks and lines a section is made of: for each keyword a filled   *)
(* and an empty (or second) occurrence                                     *)
FullItems ==
    { <<KW_DESCRIPTION, SP, "a", NL>>, <<KW_INPUT, NL, "b", NL, "a", NL>>,
      <<KW_EXPECTED, NL, "1", NL>>, <<KW_TYPE, SP, "contains", NL>>,
      <<KW_TAGS, SP, "a", COMMA, SP, "b", NL>> }

Items ==
    FullItems \cup { <<KW_DESCRIPTION, NL>>, <<KW_INPUT, NL>>, <<KW_EXPECTED, NL>>,
                     <<KW_TYPE, NL>>, <<KW_TAGS, SP, "b", NL>>,
                     <<KW_TYPE, SP, "b", NL>>, <<KW_TYPE, SP, "B", SP, "b", SP, NL>> }

RECURSIVE Concat(_)
Concat(seqs) == IF Len(seqs) = 0 THEN <<>> ELSE seqs[1] \o Concat(Tail(seqs))

(* the name line followed by the items in the order given *)
SectionOf(items) == <<DELIM, SP, "a", NL>> \o Concat(items)

MaxItems == 3

Injective(f) == \A x, y \in DOMAIN f : f[x] = f[y] => x = y

(* every order of the five filled items, and every run of at most MaxItems *)
(* items, repetitions included                                             *)
ItemSections ==
    {SectionOf(f) : f \in {g \in [1..Cardinality(FullItems) -> FullItems] : Injective(g)}}
        \cup {SectionOf(f) : f \in UNION {[1..n -> Items] : n \in 0..MaxItems}}

(* the strings handed to the comparator: every text of at most MaxCmp      *)
(* tokens, surrounding whitespace included                                 *)
MaxCmp == 3

PlainAlphabet == {"a", "b", SP}

PlainTexts == UNION {[1..n -> PlainAlphabet] : n \in 0..MaxCmp}

(* test_type strings: two of the modes, the empty string, a word that is   *)
(* no mode, and modes spelled in upper case                                *)
PlainModes == {<<"exact">>, <<"contains">>, <<>>, <<"b">>, <<"REGEX">>, <<"JSON">>}

(* JSON documents: every text of at most MaxCmp tokens over a number, a    *)
(* literal and the array brackets, and objects and arrays with two members *)
JsonAlphabet == {"1", "true", "[", "]"}

JsonDocs ==
    { <<"{", QUOTE, "a", QUOTE, ":", "1", COMMA, QUOTE, "b", QUOTE, ":", "2", "}">>,
      <<"{", QUOTE, "b", QUOTE, ":", "2", COMMA, SP, QUOTE, "a", QUOTE, ":", "1", "}", NL>>,
      <<"{", QUOTE, "a", QUOTE, ":", "1", "}">>,
      <<"{", QUOTE, "a", QUOTE, ":", "1">>,
      <<"[", "1", COMMA, "2", "]">>,
      <<"[", "2", COMMA, SP, "1", "]">>,
      <<"[", "1", COMMA, SP, "2", "]", NL>>,
      <<QUOTE, "a", QUOTE>>,
      <<"a">> }

JsonTexts == JsonDocs \cup UNION {[1..n -> JsonAlphabet] : n \in 0..MaxCmp}


(* the input_data of a test case: every text of at most MaxInput tokens,   *)
(* quotes, blanks, newlines and backslashes included                       *)
MaxInput == 5

InputAlphabet == {"a", QUOTE, SP, NL, BACKSLASH}

InputTexts == UNION {[1..n -> InputAlphabet] : n \in 0..MaxInput}

(* the lines an author may write below the name of a section: blank and  *)
(* indented lines, block keywords with and without text on their line, a   *)
(* keyword that is not at the start of its line, TYPE: and TAGS: lines     *)
LineTexts ==
    { <<>>, <<SP>>, <<"a">>, <<SP, "b", SP>>, <<"a", KW_INPUT>>,
      <<KW_INPUT>>, <<SP, KW_INPUT, SP, "a", SP>>, <<KW_EXPECTED, "b">>,
      <<KW_DESCRIPTION, SP>>, <<KW_TYPE, SP, "B", SP>>,
      <<KW_TAGS, SP, "a", COMMA, SP, "b", COMMA, "a">>, <<KW_TAGS>> }

MaxLines == 3

(* the text between two delimiters: a name, then the lines given *)
RECURSIVE SectionWith(_)
SectionWith(ls) ==
    IF Len(ls) = 0 THEN <<SP, "a">>
    ELSE SectionWith(SubSeq(ls, 1, Len(ls) - 1)) \o <<NL>> \o ls[Len(ls)]

(* what the command may print, and how long it may run *)
Outputs == {<<"1", NL>>, <<"b", "1">>}

Durations == {1, 45}

(* how a command may end: <<stdout, stderr, exit status>>.  It prints one *)
(* of the outputs and exits with status 0; or it also writes to standard   *)
(* error, text or a byte that does not decode, or exits with another       *)
(* status; or its output holds a byte that does not decode.                *)
Completions ==
    { <<out, <<>>, 0>> : out \in Outputs }
        \cup { << <<"1", NL>>, <<"b", NL>>, 3 >>,
               << <<"1", NL>>, <<BADBYTE>>, 0 >>,
               << <<BADBYTE>>, <<>>, 0 >> }

----------------------------------------------------------------------------
(* Drivers *)

(* the calls of run_test a driver can make: one per section of the file *)
Invocations == 1..MaxTests

TerminalPhases == {"COMPLETED", "TIMED_OUT", "LAUNCH_FAILED"}

InitRest ==
    /\ pc = "parse"
    /\ scan = ScanInit
    /\ remaining = <<>>
    /\ all_tests = <<>>
    /\ results = <<>>
    /\ returned = <<>>
    /\ phase = [i \in Invocations |-> "NOT_CALLED"]
    /\ launches = [i \in Invocations |-> 0]
    /\ cmd = <<>>
    /\ shell = [i \in Invocations |-> "none"]
    /\ child = [i \in Invocations |-> "none"]
    /\ duration = [i \in Invocations |-> 0]
    /\ stdout = <<>>
    /\ stderr = <<>>
    /\ returncode = 0
    /\ exc = [i \in Invocations |-> NoExc]
    /\ outcome = "none"

Init ==
    /\ content \in FileTexts(MaxTests)
    /\ driver \in {"main", "web"}
    /\ argTags \in {NoTags, <<"a">>}
    /\ driver = "web" => argTags = NoTags
    /\ InitRest

InitParse ==
    /\ content \in TokenTexts
    /\ driver \in {"main", "web"}
    /\ argTags = NoTags
    /\ InitRest

InitDelim ==
    /\ \E n \in 0..MaxPieces : content \in [1..n -> DelimAlphabet]
    /\ driver \in {"main", "web"}
    /\ argTags = NoTags
    /\ InitRest

InitSection ==
    /\ content \in WellFormedSections
    /\ driver \in {"main", "web"}
    /\ argTags = NoTags
    /\ InitRest

InitItems ==
    /\ content \in ItemSections
    /\ driver \in {"main", "web"}
    /\ argTags = NoTags
    /\ InitRest

(* run_test called on a TestCase built by its caller, at the point where  *)
(* its command has completed and printed the text out                      *)
CompareFrom(test_type, expected, out) ==
    /\ content = <<>>
    /\ driver = "main"
    /\ argTags = NoTags
    /\ pc = "in_run"
    /\ scan = ScanInit
    /\ remaining = <<>>
    /\ all_tests = <<TestCase(<<"a">>, <<>>, <<"a">>, expected, test_type,
                              FilePath, <<>>)>>
    /\ results = <<>>
    /\ returned = <<>>
    /\ phase = [i \in Invocations |-> IF i = 1 THEN "COMPLETED" ELSE "NOT_CALLED"]
    /\ launches = [i \in Invocations |-> IF i = 1 THEN 1 ELSE 0]
    /\ cmd = BuildCommand(CommandTemplate, <<"a">>)
    /\ shell = [i \in Invocations |-> IF i = 1 THEN "exited" ELSE "none"]
    /\ child = [i \in Invocations |-> "none"]
    /\ duration = [i \in Invocations |-> IF i = 1 THEN 1 ELSE 0]
    /\ stdout = out
    /\ stderr = <<>>
    /\ returncode = 0
    /\ exc = [i \in Invocations |-> NoExc]
    /\ outcome = "none"

(* every pair of plain texts under each plain mode, every pair of JSON     *)
(* texts under mode json                                                   *)
InitCompare ==
    \/ \E m \in PlainModes, e \in PlainTexts, a \in PlainTexts : CompareFrom(m, e, a)
    \/ \E e \in JsonTexts, a \in JsonTexts : CompareFrom(<<"json">>, e, a)

(* run_test called on a TestCase built by its caller, before it builds    *)
(* the command line                                                        *)
InitCommand ==
    \E input \in InputTexts :
        /\ content = <<>>
        /\ driver = "main"
        /\ argTags = NoTags
        /\ pc = "in_run"
        /\ scan = ScanInit
        /\ remaining = <<>>
        /\ all_tests = <<TestCase(<<"a">>, <<>>, input, <<"1">>, <<"exact">>,
                                  FilePath, <<>>)>>
        /\ results = <<>>
        /\ returned = <<>>
        /\ phase = [i \in Invocations |-> IF i = 1 THEN "PENDING" ELSE "NOT_CALLED"]
        /\ launches = [i \in Invocations |-> 0]
        /\ cmd = <<>>
        /\ shell = [i \in Invocations |-> "none"]
        /\ child = [i \in Invocations |-> "none"]
        /\ duration = [i \in Invocations |-> 0]
        /\ stdout = <<>>
        /\ stderr = <<>>
        /\ returncode = 0
        /\ exc = [i \in Invocations |-> NoExc]
        /\ outcome = "none"

(* main: any(tag in t.tags for tag in tag_list) *)
HasAnyTag(t, tag_list) ==
    \E i \in 1..Len(tag_list) : \E j \in 1..Len(t.tags) : t.tags[j] = tag_list[i]

SelectByTags(tests, tags_arg) ==
    IF tags_arg = NoTags THEN tests
    ELSE LET tag_list == ParseTags(tags_arg)
             Keep(t) == HasAnyTag(t, tag_list)
         IN  SelectSeq(tests, Keep)

(* main up to "Running n test(s)", run_tests up to its loop *)
ParseFile ==
    /\ pc = "parse"
    /\ LET tests == IF driver = "main"
                    THEN SelectByTags(parse_file(content, FilePath), argTags)
                    ELSE parse_file(content, FilePath)
       IN  /\ all_tests' = tests
           /\ IF driver = "main" /\ tests = <<>>
              THEN pc' = "done" /\ outcome' = 1
              ELSE pc' = "loop" /\ outcome' = outcome
    /\ UNCHANGED <<scan, remaining>>
    /\ UNCHANGED <<content, driver, argTags, results, returned, phase, launches,
                   cmd, shell, child, duration, stdout, stderr, returncode,
                   exc>>

(* _parse_test_section is entered with a section and has cut it into     *)
(* lines: the locals before the loop over lines[1:]                        *)
InitScan ==
    \E n \in 0..MaxLines : \E ls \in [1..n -> LineTexts] :
        /\ content = SectionWith(ls)
        /\ driver = "main"
        /\ argTags = NoTags
        /\ pc = "scan"
        /\ scan = ScanInit
        /\ remaining = Tail(split(strip(content), NL))
        /\ all_tests = <<>>
        /\ results = <<>>
        /\ returned = <<>>
        /\ phase = [i \in Invocations |-> "NOT_CALLED"]
        /\ launches = [i \in Invocations |-> 0]
        /\ cmd = <<>>
        /\ shell = [i \in Invocations |-> "none"]
        /\ child = [i \in Invocations |-> "none"]
        /\ duration = [i \in Invocations |-> 0]
        /\ stdout = <<>>
        /\ stderr = <<>>
        /\ returncode = 0
        /\ exc = [i \in Invocations |-> NoExc]
        /\ outcome = "none"

(* one iteration of "for line in lines[1:]" *)
ScanNextLine ==
    /\ pc = "scan"
    /\ remaining # <<>>
    /\ scan' = ScanLine(scan, Head(remaining))
    /\ remaining' = Tail(remaining)
    /\ UNCHANGED <<content, driver, argTags, pc, all_tests, results, returned,
                   phase, launches, cmd, shell, child, duration, stdout, stderr,
                   returncode, exc, outcome>>

(* the loop is over: "Save last block" and the TestCase is returned *)
ReturnTestCase ==
    /\ pc = "scan"
    /\ remaining = <<>>
    /\ scan' = SaveBlock(scan)
    /\ all_tests' = <<TestCase(strip(split(strip(content), NL)[1]),
                               scan'.description, scan'.input_data,
                               scan'.expected_output, scan'.test_type, FilePath,
                               scan'.tags)>>
    /\ pc' = "scanned"
    /\ UNCHANGED <<content, driver, argTags, remaining, results, returned, phase,
                   launches, cmd, shell, child, duration, stdout, stderr,
                   returncode, exc, outcome>>

Current == Len(returned) + 1

(* the loop calls run_test for the next case: start_time is taken *)
CallRunTest ==
    /\ pc = "loop"
    /\ Current <= Len(all_tests)
    /\ pc' = "in_run"
    /\ phase' = [phase EXCEPT ![Current] = "PENDING"]
    /\ stdout' = <<>>
    /\ stderr' = <<>>
    /\ returncode' = 0
    /\ cmd' = <<>>
    /\ UNCHANGED <<scan, remaining>>
    /\ UNCHANGED <<content, driver, argTags, all_tests, results, returned,
                   launches, shell, child, duration, exc, outcome>>

(* _execute_command builds the command line and enters subprocess.run *)
ExecuteCommand ==
    /\ pc = "in_run"
    /\ phase[Current] = "PENDING"
    /\ cmd' = BuildCommand(CommandTemplate, all_tests[Current].input_data)
    /\ launches' = [launches EXCEPT ![Current] = @ + 1]
    /\ phase' = [phase EXCEPT ![Current] = "RUNNING"]
    /\ UNCHANGED <<scan, remaining>>
    /\ UNCHANGED <<content, driver, argTags, pc, all_tests, results, returned,
                   shell, child, duration, stdout, stderr, returncode, exc,
                   outcome>>

(* a runner that tries again after a failed spawn *)
RetryAfterSpawnFailure == "PENDING"

(* where run_test goes when the shell cannot be spawned: to its except     *)
(* branch, which returns                                                   *)
AfterSpawnFailure == "LAUNCH_FAILED"

(* shell=True: the shell cannot be spawned, Popen raises OSError *)
SpawnFails ==
    /\ pc = "in_run"
    /\ phase[Current] = "RUNNING"
    /\ shell[Current] = "none"
    /\ phase' = [phase EXCEPT ![Current] = AfterSpawnFailure]
    /\ exc' = [exc EXCEPT ![Current] = "OSError"]
    /\ UNCHANGED <<scan, remaining>>
    /\ UNCHANGED <<content, driver, argTags, pc, all_tests, results, returned,
                   launches, cmd, shell, child, duration, stdout, stderr, returncode,
                   outcome>>

(* shell=True: the shell is spawned and is handed the command line.  It    *)
(* runs the command in its own process ("none"), forks a process for it    *)
(* ("running"), or finds no program to start ("not_found").                *)
SpawnShell ==
    /\ pc = "in_run"
    /\ phase[Current] = "RUNNING"
    /\ shell[Current] = "none"
    /\ shell' = [shell EXCEPT ![Current] = "running"]
    /\ \E c \in {"none", "running", "not_found"} :
           /\ child' = [child EXCEPT ![Current] = c]
           /\ \E d \in Durations :
                  /\ c = "not_found" => d = 1
                  /\ duration' = [duration EXCEPT ![Current] = d]
    /\ UNCHANGED <<scan, remaining>>
    /\ UNCHANGED <<content, driver, argTags, pc, all_tests, results, returned,
                   phase, launches, cmd, stdout, stderr, returncode, exc, outcome>>

(* text=True: a stream decodes unless it holds a byte that is not valid *)
Decodes(text) == \A n \in 1..Len(text) : text[n] # BADBYTE

(* the command ends before the ceiling, with an exit status: both of its   *)
(* streams are read and decoded (capture_output=True, text=True), and a    *)
(* stream that does not decode raises UnicodeDecodeError; the shell has    *)
(* waited for the process it forked, so none is left                       *)
CommandCompletes ==
    /\ pc = "in_run"
    /\ phase[Current] = "RUNNING"
    /\ shell[Current] = "running"
    /\ child[Current] # "not_found"
    /\ ~TimeoutExpires(duration[Current])
    /\ phase' = [phase EXCEPT ![Current] = "COMPLETED"]
    /\ shell' = [shell EXCEPT ![Current] = "exited"]
    /\ child' = [child EXCEPT ![Current] = "none"]
    /\ \E end \in Completions :
           /\ stdout' = end[1]
           /\ stderr' = end[2]
           /\ returncode' = end[3]
           /\ exc' = IF Decodes(end[1]) /\ Decodes(end[2]) THEN exc
                     ELSE [exc EXCEPT ![Current] = "UnicodeDecodeError"]
    /\ UNCHANGED <<scan, remaining>>
    /\ UNCHANGED <<content, driver, argTags, pc, all_tests, results, returned,
                   launches, cmd, duration, outcome>>

(* the shell found no program to start: it writes its complaint to         *)
(* standard error and exits with a non-zero status, which                  *)
(* _execute_command does not read; standard output is empty                *)
CommandNotFound ==
    /\ pc = "in_run"
    /\ phase[Current] = "RUNNING"
    /\ shell[Current] = "running"
    /\ child[Current] = "not_found"
    /\ phase' = [phase EXCEPT ![Current] = "COMPLETED"]
    /\ shell' = [shell EXCEPT ![Current] = "exited"]
    /\ stdout' = <<>>
    /\ stderr' = <<"echo", SP, "b", NL>>
    /\ returncode' = 127
    /\ UNCHANGED <<scan, remaining>>
    /\ UNCHANGED <<content, driver, argTags, pc, all_tests, results, returned,
                   launches, cmd, child, duration, exc, outcome>>

(* the ceiling is reached first: subprocess.run kills the process it       *)
(* started (the shell), waits for it and raises TimeoutExpired             *)
CommandTimesOut ==
    /\ pc = "in_run"
    /\ phase[Current] = "RUNNING"
    /\ shell[Current] = "running"
    /\ child[Current] # "not_found"
    /\ TimeoutExpires(duration[Current])
    /\ phase' = [phase EXCEPT ![Current] = "TIMED_OUT"]
    /\ shell' = [shell EXCEPT ![Current] = "killed"]
    /\ exc' = [exc EXCEPT ![Current] = "TimeoutExpired"]
    /\ UNCHANGED <<scan, remaining>>
    /\ UNCHANGED <<content, driver, argTags, pc, all_tests, results, returned,
                   launches, cmd, child, duration, stdout, stderr, returncode, outcome>>

(* datetime.now() - start_time when run_test builds its result *)
Elapsed(i) == IF phase[i] = "LAUNCH_FAILED" THEN 0 ELSE WaitTime(duration[i])

(* the dict run_tests appends for a TestResult; 'time' keeps the seconds   *)
(* that the handler formats with three decimals                            *)
WebEntry(r) ==
    [name |-> r.test_case.name, description |-> r.test_case.description,
     passed |-> r.passed, expected |-> r.test_case.expected_output,
     actual |-> r.actual_output, error |-> r.error_message,
     time |-> r.execution_time]

(* a loop that puts the newest result first *)
InsertResultFirst(rs, r) ==
    <<IF driver = "main" THEN r ELSE WebEntry(r)>> \o rs

(* results.append(...) in the loop body of either driver *)
AppendResult(rs, r) ==
    Append(rs, IF driver = "main" THEN r ELSE WebEntry(r))

(* run_test compares, builds its TestResult and returns, and the loop      *)
(* appends it.  An exception that run_test does not catch leaves the loop: *)
(* main ends with a traceback, run_tests answers 500 from its own except.  *)
ReturnResult ==
    /\ pc = "in_run"
    /\ phase[Current] \in TerminalPhases
    /\ LET tc == all_tests[Current]
           raised == TryRaises(tc, exc[Current], stdout)
       IN  /\ exc' = [exc EXCEPT ![Current] = raised]
           /\ IF raised # NoExc /\ ~Catches(raised)
              THEN /\ pc' = IF driver = "main" THEN "crashed" ELSE "done"
                   /\ outcome' = IF driver = "main" THEN 1
                                 ELSE [error |-> ExcStr(raised), status |-> 500]
                   /\ UNCHANGED <<returned, results>>
              ELSE LET r == run_test(tc, exc[Current], stdout, Elapsed(Current))
                   IN  /\ returned' = Append(returned, r)
                       /\ results' = AppendResult(results, r)
                       /\ pc' = "loop"
                       /\ outcome' = outcome
    /\ UNCHANGED <<scan, remaining>>
    /\ UNCHANGED <<content, driver, argTags, all_tests, phase, launches, cmd,
                   shell, child, duration, stdout, stderr, returncode>>

CountPassed(rs) == Cardinality({i \in 1..Len(rs) : rs[i].passed})

(* main: print_results and the exit status; run_tests: the summary *)
Report ==
    /\ pc = "loop"
    /\ Current > Len(all_tests)
    /\ pc' = "done"
    /\ LET passed == CountPassed(results)
           failed == Len(results) - passed
       IN  outcome' = IF driver = "main"
                      THEN (IF failed = 0 THEN 0 ELSE 1)
                      ELSE [total |-> Len(results), passed |-> passed,
                            failed |-> failed, tests |-> results, status |-> 200]
    /\ UNCHANGED <<scan, remaining>>
    /\ UNCHANGED <<content, driver, argTags, all_tests, results, returned, phase,
                   launches, cmd, shell, child, duration, stdout, stderr, returncode,
                   exc>>

Next ==
    \/ ParseFile
    \/ CallRunTest
    \/ ExecuteCommand
    \/ SpawnFails
    \/ SpawnShell
    \/ CommandCompletes
    \/ CommandNotFound
    \/ CommandTimesOut
    \/ ReturnResult
    \/ Report

Spec == Init /\ [][Next]_vars

(* the parser alone, on every short text *)
NextParse == ParseFile

SpecParse == InitParse /\ [][NextParse]_vars

(* the parser on sections with their fields in every order, and repeated *)
SpecItems == InitItems /\ [][NextParse]_vars

(* the comparison made by run_test, on every pair of short strings *)
NextCompare == ReturnResult

SpecCompare == InitCompare /\ [][NextCompare]_vars

(* the command line built by _execute_command, for every short input *)
NextCommand == ExecuteCommand

SpecCommand == InitCommand /\ [][NextCommand]_vars

(* the parser on every well-formed section *)
SpecSection == InitSection /\ [][NextParse]_vars

(* the parser on texts that spell the delimiter in pieces *)
SpecDelim == InitDelim /\ [][NextParse]_vars

(* the section scanner alone, line by line *)
NextScan == ScanNextLine \/ ReturnTestCase

SpecScan == InitScan /\ [][NextScan]_vars

----------------------------------------------------------------------------
(* Properties *)

Finished == 1..Len(returned)

(* C1: parse_file never returns a TestCase whose name is the empty string: *)
(* a section with nothing but whitespace after its delimiter yields none.  *)
C1_NoEmptyName ==
    pc # "parse" => \A i \in 1..Len(all_tests) : all_tests[i].name # <<>>

(* the section that starts at delimiter p and ends before delimiter q      *)
(* holds nothing but whitespace                                            *)
EmptyNameSectionAt(text, p, q) ==
    /\ p < q
    /\ text[p] = DELIM
    /\ text[q] = DELIM
    /\ \A j \in (p + 1)..(q - 1) : IsSpace(text[j])

TextFrom(text, q) == SubSeq(text, q, Len(text))

EndsWith(seq, suffix) ==
    /\ Len(seq) >= Len(suffix)
    /\ SubSeq(seq, Len(seq) - Len(suffix) + 1, Len(seq)) = suffix

(* C2: the TestCases parsed for the sections that follow a section with no *)
(* name are, field by field and in order, the TestCases parsed from the    *)
(* text of those sections alone.                                           *)
C2_LaterSectionsUnaffected ==
    pc # "parse" =>
        \A p, q \in 1..Len(content) :
            EmptyNameSectionAt(content, p, q) =>
                EndsWith(all_tests, parse_file(TextFrom(content, q), FilePath))

C2_Witness ==
    /\ pc # "parse"
    /\ \E p, q \in 1..Len(content) :
           /\ EmptyNameSectionAt(content, p, q)
           /\ LET alone == parse_file(TextFrom(content, q), FilePath)
              IN  /\ Len(alone) = 1
                  /\ alone[1].name # <<>>
                  /\ alone[1].input_data # <<>>

(* C3: run_test never raises to its caller: every invocation that reached  *)
(* an end (normal exit, timeout, launch error, undecodable output, error   *)
(* raised while comparing) returned a TestResult, and a result built on a  *)
(* failure path has passed = FALSE and the failure in error_message.       *)
C3_RunTestAlwaysReturns ==
    /\ pc # "crashed"
    /\ (driver = "web" /\ pc = "done") => outcome.status = 200
    /\ \A i \in Invocations :
           (phase[i] \in TerminalPhases /\ ~(pc = "in_run" /\ i = Current))
               => i \in Finished
    /\ \A i \in Finished :
           exc[i] # NoExc =>
               /\ ~returned[i].passed
               /\ returned[i].error_message = ExcStr(exc[i])
               /\ returned[i].error_message # ""

C3_Witness ==
    \E i, j \in Finished :
        /\ exc[i] = "re.error" /\ ~returned[i].passed
        /\ exc[j] = "OSError" /\ ~returned[j].passed

(* C4: error_message is non-empty only when execution itself failed (the   *)
(* process could not be launched, timed out, or its output could not be    *)
(* decoded); when the command ran to completion and its output was         *)
(* decoded, error_message is empty.                                        *)
C4_ErrorMessageOnlyOnExecutionFailure ==
    \A i \in Finished :
        /\ returned[i].error_message # "" =>
               \/ phase[i] \in {"LAUNCH_FAILED", "TIMED_OUT"}
               \/ exc[i] = "UnicodeDecodeError"
        /\ (phase[i] = "COMPLETED" /\ exc[i] # "UnicodeDecodeError") =>
               returned[i].error_message = ""

(* expected and actual match under the declared comparison mode *)
Matches(tc, actual) ==
    /\ ~CompareRaises(tc.expected_output, actual, tc.test_type)
    /\ compare_output(tc.expected_output, actual, tc.test_type)

(* C5: every result with passed = FALSE is explainable: its error_message  *)
(* is non-empty, or its actual_output does not match the expected_output   *)
(* of its test case under the test_type of that case.                      *)
C5_FailureExplainable ==
    \A i \in Finished :
        ~returned[i].passed =>
            \/ returned[i].error_message # ""
            \/ ~Matches(returned[i].test_case, returned[i].actual_output)

C5_Witness ==
    \E i, j \in Finished :
        /\ ~returned[i].passed /\ returned[i].error_message = ""
        /\ ~returned[j].passed /\ returned[j].error_message # ""

(* C6: when the command needs longer than the 30-second ceiling, run_test  *)
(* returns passed = FALSE with a non-empty error_message, and it returns   *)
(* at the ceiling: execution_time is the ceiling, not the time the command *)
(* would have taken.                                                       *)
C6_TimeoutCutsTheRun ==
    \A i \in Finished :
        duration[i] > Timeout =>
            /\ ~returned[i].passed
            /\ returned[i].error_message # ""
            /\ returned[i].execution_time = Timeout
            /\ returned[i].execution_time < duration[i]

C6_Witness ==
    \E i \in Finished : duration[i] > Timeout /\ phase[i] = "TIMED_OUT"

(* C7: once run_test has returned, no process started by that invocation   *)
(* is still running, the timeout path included.                            *)
C7_NoProcessLeftRunning ==
    \A i \in Finished : shell[i] # "running" /\ child[i] # "running"

PhaseSteps ==
    { <<"NOT_CALLED", "PENDING">>, <<"PENDING", "RUNNING">>,
      <<"RUNNING", "COMPLETED">>, <<"RUNNING", "TIMED_OUT">>,
      <<"RUNNING", "LAUNCH_FAILED">> }

(* C8: each invocation moves PENDING -> RUNNING -> one of COMPLETED,        *)
(* TIMED_OUT, LAUNCH_FAILED: a terminal phase is never left, the command   *)
(* is started at most once per invocation, and the invocations that have   *)
(* ended and the TestResults returned are the same in number.              *)
C8_LinearProgression ==
    [][ /\ \A i \in Invocations :
               /\ phase'[i] # phase[i] => <<phase[i], phase'[i]>> \in PhaseSteps
               /\ phase[i] \in TerminalPhases => phase'[i] = phase[i]
               /\ launches[i] <= launches'[i]
               /\ launches'[i] <= 1
               /\ phase'[i] \in TerminalPhases => launches'[i] = 1
        /\ Len(returned') =
               Cardinality({i \in Invocations :
                                /\ phase'[i] \in TerminalPhases
                                /\ ~(pc' = "in_run" /\ i = Len(returned') + 1)})
      ]_vars

C8_Witness ==
    \E i, j \in Finished :
        /\ phase[i] = "TIMED_OUT"
        /\ phase[j] = "LAUNCH_FAILED"
        /\ launches[i] = 1 /\ launches[j] = 1

(* C9: when the command of a test case could not be started, run_test      *)
(* returns passed = FALSE, an empty actual_output and a non-empty          *)
(* error_message; such a command never yields passed = TRUE.               *)
C9_LaunchFailureReported ==
    \A i \in Finished :
        (phase[i] = "LAUNCH_FAILED" \/ child[i] = "not_found") =>
            /\ ~returned[i].passed
            /\ returned[i].actual_output = <<>>
            /\ returned[i].error_message # ""

(* the entry a driver keeps for a result belongs to the test case tc *)
Corresponds(entry, tc) ==
    IF driver = "main" THEN entry.test_case = tc
    ELSE /\ entry.name = tc.name
         /\ entry.description = tc.description
         /\ entry.expected = tc.expected_output

(* C10: the drivers produce one result per TestCase handed to their loop,  *)
(* in input order, and a failing or erroring case does not keep the later  *)
(* cases from being run and reported.                                      *)
C10_OneResultPerCaseInOrder ==
    /\ pc # "crashed"
    /\ (argTags = NoTags /\ pc = "done") => all_tests = parse_file(content, FilePath)
    /\ Len(results) = Len(returned)
    /\ Len(results) <= Len(all_tests)
    /\ \A i \in 1..Len(results) : Corresponds(results[i], all_tests[i])
    /\ pc = "done" => Len(results) = Len(all_tests)
    /\ (pc = "done" /\ driver = "web") =>
           outcome.status = 200 /\ outcome.tests = results

C10_Witness ==
    /\ pc = "done"
    /\ Len(results) = 2
    /\ ~results[1].passed
    /\ results[2].passed
    /\ all_tests[1] # all_tests[2]

FieldKeywords == {KW_DESCRIPTION, KW_INPUT, KW_EXPECTED, KW_TYPE, KW_TAGS}

(* the text an author wrote for the block of keyword kw: what stands       *)
(* between the keyword and the next keyword or delimiter of the text       *)
BlockText(text, kw) ==
    LET k == CHOOSE p \in 1..Len(text) : text[p] = kw
        stops == {q \in (k + 1)..Len(text) : text[q] \in FieldKeywords \cup {DELIM}}
        end == IF stops = {} THEN Len(text) + 1
               ELSE CHOOSE q \in stops : \A r \in stops : q <= r
    IN  SubSeq(text, k + 1, end - 1)

NonEmpty(s) == s # <<>>

(* the lines of a block text, each trimmed, without the blank ones *)
TrimmedLines(body) ==
    LET lines == split(body, NL)
        stripped == [n \in 1..Len(lines) |-> strip(lines[n])]
    IN  join(SelectSeq(stripped, NonEmpty))

(* no line between the first and the last line of the block is blank or   *)
(* has whitespace of its own around it                                     *)
LinesClean(body) ==
    LET lines == split(strip(body), NL)
    IN  \/ strip(body) = <<>>
        \/ \A n \in 1..Len(lines) : lines[n] # <<>> /\ strip(lines[n]) = lines[n]

(* C11 as stated: the description, input_data and expected_output parsed   *)
(* from a well-formed section equal the block texts as written, up to      *)
(* trimming of the whitespace around the whole block only.                 *)
C11_RoundTripExact ==
    pc # "parse" =>
        /\ Len(all_tests) = 1
        /\ all_tests[1].description = strip(BlockText(content, KW_DESCRIPTION))
        /\ all_tests[1].input_data = strip(BlockText(content, KW_INPUT))
        /\ all_tests[1].expected_output = strip(BlockText(content, KW_EXPECTED))

(* C11 amended: each of the three fields parsed from a well-formed section *)
(* is the text of its own block with every line trimmed and the blank      *)
(* lines dropped; it equals the trimmed block text exactly when no line    *)
(* inside the block is blank or has whitespace of its own around it.       *)
C11_RoundTripPerLine ==
    pc # "parse" =>
        /\ Len(all_tests) = 1
        /\ LET tc == all_tests[1]
               d == BlockText(content, KW_DESCRIPTION)
               i == BlockText(content, KW_INPUT)
               e == BlockText(content, KW_EXPECTED)
           IN  /\ tc.description = TrimmedLines(d)
               /\ tc.input_data = TrimmedLines(i)
               /\ tc.expected_output = TrimmedLines(e)
               /\ LinesClean(d) <=> tc.description = strip(d)
               /\ LinesClean(i) <=> tc.input_data = strip(i)
               /\ LinesClean(e) <=> tc.expected_output = strip(e)

C11_Witness ==
    /\ pc # "parse"
    /\ strip(BlockText(content, KW_INPUT)) = <<"a", NL, NL, "a">>
    /\ all_tests[1].input_data = <<"a", NL, "a">>
    /\ all_tests[1].description = <<"a">>
    /\ all_tests[1].expected_output = <<"1">>

KeywordPositions(text) == {p \in 1..Len(text) : text[p] \in FieldKeywords}

Min(S) == CHOOSE m \in S : \A x \in S : m <= x

Max(S) == CHOOSE m \in S : \A x \in S : x <= m

RECURSIVE Ascending(_)
Ascending(S) == IF S = {} THEN <<>> ELSE <<Min(S)>> \o Ascending(S \ {Min(S)})

(* the text from the keyword at position p up to the next keyword *)
ItemAt(text, p) ==
    LET later == {q \in KeywordPositions(text) : q > p}
    IN  SubSeq(text, p, IF later = {} THEN Len(text) ELSE Min(later) - 1)

(* the blocks and lines of a section, as written, in order *)
ItemsOf(text) ==
    LET at == Ascending(KeywordPositions(text))
    IN  [n \in 1..Len(at) |-> ItemAt(text, at[n])]

(* the section with its items in the order perm *)
Reorder(text, perm) ==
    LET items == ItemsOf(text)
        head == IF KeywordPositions(text) = {} THEN text
                ELSE SubSeq(text, 1, Min(KeywordPositions(text)) - 1)
    IN  head \o Concat([n \in 1..Len(items) |-> items[perm[n]]])

Orders(n) == {f \in [1..n -> 1..n] : Injective(f)}

Occurrences(text, kw) == {p \in 1..Len(text) : text[p] = kw}

EachAtMostOnce(text) ==
    \A kw \in FieldKeywords : Cardinality(Occurrences(text, kw)) <= 1

(* what follows the last occurrence of kw, up to the next keyword *)
LastText(text, kw) == Tail(ItemAt(text, Max(Occurrences(text, kw))))

(* the field a section sets with keyword kw, from its last occurrence,    *)
(* and the default when the keyword is absent                              *)
FieldFromLast(text, kw) ==
    IF Occurrences(text, kw) = {}
    THEN (IF kw = KW_TYPE THEN <<"exact">> ELSE <<>>)
    ELSE CASE kw = KW_TYPE -> lower(strip(LastText(text, kw)))
           [] kw = KW_TAGS -> ParseTags(LastText(text, kw))
           [] OTHER -> TrimmedLines(LastText(text, kw))

(* C12: the fields of a section may come in any order, and a repeated      *)
(* field overwrites: every reordering of the blocks and lines of a section *)
(* in which no keyword repeats parses to the same TestCase, and each field *)
(* holds the content of the last occurrence of its keyword alone, also     *)
(* when that occurrence is empty.                                          *)
C12_AnyOrderLastWins ==
    pc # "parse" =>
        /\ Len(all_tests) = 1
        /\ EachAtMostOnce(content) =>
               \A perm \in Orders(Len(ItemsOf(content))) :
                   parse_file(Reorder(content, perm), FilePath) = all_tests
        /\ all_tests[1].description = FieldFromLast(content, KW_DESCRIPTION)
        /\ all_tests[1].input_data = FieldFromLast(content, KW_INPUT)
        /\ all_tests[1].expected_output = FieldFromLast(content, KW_EXPECTED)
        /\ all_tests[1].test_type = FieldFromLast(content, KW_TYPE)
        /\ all_tests[1].tags = FieldFromLast(content, KW_TAGS)

C12_Witness ==
    /\ pc # "parse"
    /\ ItemsOf(content) = << <<KW_TYPE, SP, "contains", NL>>,
                             <<KW_INPUT, NL, "b", NL, "a", NL>>,
                             <<KW_INPUT, NL>> >>
    /\ all_tests[1].input_data = <<>>
    /\ all_tests[1].test_type = <<"contains">>

(* C13: text before the first delimiter contributes to no TestCase: the    *)
(* TestCases of a file are those of its text from the first delimiter on,  *)
(* and a text without a delimiter yields the empty sequence, not an error. *)
C13_TextBeforeFirstDelimiterDiscarded ==
    pc # "parse" =>
        /\ pc \in {"loop", "done"}
        /\ IF Occurrences(content, DELIM) = {}
           THEN all_tests = <<>>
           ELSE all_tests =
                    parse_file(TextFrom(content, Min(Occurrences(content, DELIM))),
                               FilePath)

C13_Witness ==
    /\ pc # "parse"
    /\ Len(content) > 2
    /\ content[1] = KW_INPUT
    /\ content[2] = "a"
    /\ Occurrences(content, DELIM) # {}
    /\ Len(all_tests) = 1
    /\ all_tests[1].name = <<"a">>
    /\ all_tests[1].input_data = <<>>

Modes == {<<"exact">>, <<"contains">>, <<"regex">>, <<"json">>}

(* the value written on the last TYPE: line, trimmed *)
WrittenType(text) == strip(LastText(text, KW_TYPE))

(* the section has a TYPE: line whose value is none of the four modes in   *)
(* any spelling                                                            *)
UnrecognizedType(text) ==
    /\ Occurrences(text, KW_TYPE) # {}
    /\ \A m \in Modes : Expand(WrittenType(text)) # Expand(m)
    /\ WrittenType(text) \notin {<<"REGEX">>, <<"JSON">>}

(* an upper-case token and the token str.lower gives for it *)
CasePairs == {<<"B", "b">>, <<"REGEX", "regex">>, <<"JSON", "json">>}

UpperCase == {pr[1] : pr \in CasePairs}

(* C14 as stated: an unrecognized TYPE: value is preserved verbatim: the   *)
(* test_type is the value exactly as written, trimmed, and the section     *)
(* still yields its TestCase.                                              *)
C14_TypePreservedVerbatim ==
    (pc # "parse" /\ UnrecognizedType(content)) =>
        /\ Len(all_tests) = 1
        /\ all_tests[1].test_type = WrittenType(content)

(* C14 amended: an unrecognized TYPE: value is kept trimmed and in lower   *)
(* case, and the section still yields its TestCase: test_type has the      *)
(* characters of the written value, each upper-case letter replaced by its *)
(* lower-case letter, so it is the value as written exactly when that has  *)
(* no upper-case letter.                                                   *)
C14_TypePreservedLowerCased ==
    (pc # "parse" /\ UnrecognizedType(content)) =>
        /\ Len(all_tests) = 1
        /\ LET written == WrittenType(content)
               parsed == all_tests[1].test_type
           IN  /\ Len(parsed) = Len(written)
               /\ \A n \in 1..Len(written) :
                      IF written[n] \in UpperCase
                      THEN <<written[n], parsed[n]>> \in CasePairs
                      ELSE parsed[n] = written[n]
               /\ (parsed = written) <=>
                      (\A n \in 1..Len(written) : written[n] \notin UpperCase)

C14_Witness ==
    /\ pc # "parse"
    /\ UnrecognizedType(content)
    /\ WrittenType(content) = <<"B", SP, "b">>
    /\ all_tests[1].test_type = <<"b", SP, "b">>

(* e occurs in a as a run of consecutive characters *)
IsSubstring(e, a) ==
    \E k \in 1..(Len(a) + 1) :
        k + Len(e) - 1 <= Len(a) /\ SubSeq(a, k, k + Len(e) - 1) = e

(* C15: under mode contains the comparison passes exactly when the trimmed *)
(* expected string is a substring of the trimmed actual string, never the  *)
(* other way round; an empty expected passes against every actual.         *)
C15_ContainsExpectedInActual ==
    \A i \in Finished :
        returned[i].test_case.test_type = <<"contains">> =>
            LET e == strip(returned[i].test_case.expected_output)
                a == strip(stdout)
            IN  /\ returned[i].passed <=> IsSubstring(Expand(e), Expand(a))
                /\ e = <<>> => returned[i].passed

C15_Witness ==
    \E i \in Finished :
        /\ returned[i].test_case.test_type = <<"contains">>
        /\ returned[i].test_case.expected_output = <<"a", SP>>
        /\ stdout = <<SP, "b", "a">>
        /\ returned[i].passed

(* C16: a mode string other than exact, contains, regex and json (the      *)
(* empty string and upper-case spellings included) gives the verdict of    *)
(* mode exact on every pair: equality of the two strings after trimming    *)
(* both, so that a string compared with itself passes.                     *)
C16_OtherModesAreExact ==
    \A i \in Finished :
        LET tc == returned[i].test_case
            same == Expand(strip(tc.expected_output)) = Expand(strip(stdout))
        IN  (tc.test_type \notin {<<"contains">>, <<"regex">>, <<"json">>}) =>
                /\ returned[i].passed <=> same
                /\ returned[i].error_message = ""
                /\ tc.expected_output = stdout => returned[i].passed

C16_Witness ==
    \E i \in Finished :
        /\ returned[i].test_case.test_type = <<"REGEX">>
        /\ returned[i].test_case.expected_output = <<"a">>
        /\ stdout = <<"b", "a">>
        /\ ~returned[i].passed

(* two parsed documents are the same structured data: the same kind of     *)
(* value, the same number, literal or string, arrays with equal elements   *)
(* in the same order, objects with the same keys holding equal values      *)
RECURSIVE DeepEqual(_, _)
DeepEqual(x, y) ==
    IF x.t # y.t THEN FALSE
    ELSE IF x.t = "list"
         THEN /\ Len(x.v) = Len(y.v)
              /\ \A n \in 1..Len(x.v) : DeepEqual(x.v[n], y.v[n])
    ELSE IF x.t = "dict"
         THEN /\ DictKeys(x) = DictKeys(y)
              /\ \A k \in DictKeys(x) : DeepEqual(DictGet(x, k), DictGet(y, k))
    ELSE x.v = y.v

(* C17: under mode json the comparison passes exactly when both strings    *)
(* parse as structured data and the parsed values are deeply equal, key    *)
(* order in objects being irrelevant and order in arrays significant; when *)
(* either side does not parse, the result is an ordinary mismatch: passed  *)
(* is false and error_message is empty.                                    *)
C17_JsonDeepEquality ==
    \A i \in Finished :
        returned[i].test_case.test_type = <<"json">> =>
            LET ej == JsonLoads(Expand(strip(returned[i].test_case.expected_output)))
                aj == JsonLoads(Expand(strip(stdout)))
            IN  /\ returned[i].error_message = ""
                /\ returned[i].passed <=>
                       (ej.ok /\ aj.ok /\ DeepEqual(ej.value, aj.value))

(* the test case is in mode regex and its expected_output does not compile *)
InvalidPattern(tc) ==
    /\ tc.test_type = <<"regex">>
    /\ ~RegexCompiles(Expand(strip(tc.expected_output)))

(* the sections of a file text, as parse_file cuts them *)
SectionsOf(text) == Tail(split(text, DELIM))

(* the section declares mode regex and writes the pattern pat under        *)
(* EXPECTED:                                                               *)
CarriesPattern(section, pat) ==
    /\ Occurrences(section, KW_TYPE) # {}
    /\ Occurrences(section, KW_EXPECTED) # {}
    /\ lower(WrittenType(section)) = <<"regex">>
    /\ strip(BlockText(section, KW_EXPECTED)) = pat

(* C18: a regex test whose expected_output is not a valid pattern fails,   *)
(* it does not crash: run_test returns with passed = FALSE and the driver  *)
(* goes on; and the parser accepts the section, the TestCase carrying the  *)
(* pattern as it was written (looked at when the file has been parsed and  *)
(* no test has run: no later step changes content or all_tests).           *)
C18_InvalidPatternFailsTheTest ==
    /\ pc # "crashed"
    /\ (driver = "web" /\ pc = "done") => outcome.status = 200
    /\ \A i \in Finished : InvalidPattern(returned[i].test_case) => ~returned[i].passed
    /\ \A i \in Invocations :
           (i <= Len(all_tests) /\ InvalidPattern(all_tests[i])
                /\ phase[i] \in TerminalPhases /\ ~(pc = "in_run" /\ i = Current))
               => i \in Finished
    /\ (pc # "parse" /\ argTags = NoTags /\ returned = <<>>) =>
           LET sections == SectionsOf(content)
           IN  \A n \in 1..Len(sections) :
                   CarriesPattern(sections[n], <<"(">>) =>
                       \E k \in 1..Len(all_tests) :
                           /\ all_tests[k].expected_output = <<"(">>
                           /\ all_tests[k].test_type = <<"regex">>
                           /\ all_tests[k].name = <<"a">>

C18_Witness ==
    /\ Len(returned) = 2
    /\ CarriesPattern(SectionsOf(content)[1], <<"(">>)
    /\ InvalidPattern(returned[1].test_case)
    /\ phase[1] = "COMPLETED"
    /\ ~returned[1].passed
    /\ returned[2].passed

(* the text with each of its double quotes written twice *)
RECURSIVE Doubled(_)
Doubled(s) ==
    IF Len(s) = 0 THEN <<>>
    ELSE IF Head(s) = QUOTE THEN <<QUOTE, QUOTE>> \o Doubled(Tail(s))
    ELSE <<Head(s)>> \o Doubled(Tail(s))

(* C19: the command line executed is the template with {input} replaced by *)
(* the input_data between double quotes, each embedded double quote        *)
(* doubled, and for every input_data the shell reads the replaced text as  *)
(* exactly one argument: the line is one command of two words, the program *)
(* of the template and that argument, and no part of the input ends the    *)
(* quoting.                                                                *)
C19_InputIsOneArgument ==
    \A i \in Invocations :
        (phase[i] = "RUNNING" /\ i = Current) =>
            /\ cmd = <<"echo", SP, QUOTE>> \o Doubled(all_tests[i].input_data)
                         \o <<QUOTE>>
            /\ ~ShRead(cmd).error
            /\ Len(ShRead(cmd).commands) = 1
            /\ Len(ShRead(cmd).commands[1]) = 2

(* the newest result belongs to the run whose streams the state holds: no  *)
(* later call of run_test has started                                      *)
LatestRun(i) ==
    /\ i = Len(returned)
    /\ i >= 1
    /\ (i < MaxTests => phase[i + 1] = "NOT_CALLED")

(* C20: the verdict of a completed run depends only on the trimmed         *)
(* standard output: actual_output of every TestResult carries no leading   *)
(* or trailing whitespace, and, the command having ended with an output    *)
(* that decodes, passed, actual_output and error_message are what run_test *)
(* makes of that output alone, whatever the command wrote to standard      *)
(* error and whatever its exit status.                                     *)
C20_VerdictFromTrimmedStdout ==
    /\ \A i \in Finished : returned[i].actual_output = strip(returned[i].actual_output)
    /\ \A i \in Invocations :
           (LatestRun(i) /\ phase[i] = "COMPLETED" /\ Decodes(stdout)) =>
               LET r == run_test(returned[i].test_case, NoExc, stdout, Elapsed(i))
               IN  /\ returned[i].passed = r.passed
                   /\ returned[i].actual_output = r.actual_output
                   /\ returned[i].error_message = r.error_message

BlockKeywords == {KW_DESCRIPTION, KW_INPUT, KW_EXPECTED}

Blocks == {"description", "input", "expected"}

(* the block a keyword introduces *)
BlockOf(kw) ==
    CASE kw = KW_DESCRIPTION -> "description"
      [] kw = KW_INPUT -> "input"
      [] kw = KW_EXPECTED -> "expected"

(* the field of the scanner's locals a block is stored into *)
FieldOf(st, block) ==
    CASE block = "description" -> st.description
      [] block = "input" -> st.input_data
      [] block = "expected" -> st.expected_output

(* the scanner is about to read a line: the line, trimmed *)
Reading == pc = "scan" /\ remaining # <<>>

NextLine == strip(Head(remaining))

(* C21: reading a line that, trimmed, begins with DESCRIPTION:, INPUT: or  *)
(* EXPECTED: is one step of the scanner in which the buffer, joined with   *)
(* newlines and trimmed, is stored into the field of the block that was    *)
(* active (nothing is stored when none was), the other fields, test_type   *)
(* and tags keep their values, the active block becomes the one the        *)
(* keyword introduces, and the buffer becomes the trimmed text after the   *)
(* keyword on that line, or empty when there is none.                      *)
C21_KeywordLineTransition ==
    [][(Reading /\ NextLine # <<>> /\ NextLine[1] \in BlockKeywords) =>
          LET inline == strip(Tail(NextLine))
          IN  /\ scan'.current_block = BlockOf(NextLine[1])
              /\ scan'.block_content = IF inline = <<>> THEN <<>> ELSE <<inline>>
              /\ \A b \in Blocks :
                     FieldOf(scan', b) =
                         IF b = scan.current_block
                         THEN strip(join(scan.block_content))
                         ELSE FieldOf(scan, b)
              /\ scan'.test_type = scan.test_type
              /\ scan'.tags = scan.tags
              /\ remaining' = Tail(remaining)
              /\ pc' = pc]_vars

C21_Witness ==
    /\ pc = "scan"
    /\ scan.current_block = "expected"
    /\ scan.block_content = <<<<"b">>>>
    /\ scan.input_data = <<"a", NL, "b">>
    /\ scan.expected_output = <<>>

(* parsed is written with each upper-case letter replaced by its           *)
(* lower-case letter                                                       *)
LowerCased(written, parsed) ==
    /\ Len(parsed) = Len(written)
    /\ \A n \in 1..Len(written) :
           IF written[n] \in UpperCase
           THEN <<written[n], parsed[n]>> \in CasePairs
           ELSE parsed[n] = written[n]

(* the entries of a comma-separated text: what stands before the first     *)
(* comma, between two commas in a row, and after the last one              *)
Entries(text) ==
    LET commas == Ascending(Occurrences(text, COMMA))
        from(k) == IF k = 1 THEN 1 ELSE commas[k - 1] + 1
        to(k) == IF k = Len(commas) + 1 THEN Len(text) ELSE commas[k] - 1
    IN  [k \in 1..(Len(commas) + 1) |-> SubSeq(text, from(k), to(k))]

(* C22: reading a line that, trimmed, begins with TYPE: sets test_type to  *)
(* the trimmed, lower-cased remainder of the line, and reading one that    *)
(* begins with TAGS: sets tags to the entries of the comma-separated       *)
(* remainder, each trimmed; in both cases the active block, the buffer and *)
(* the three fields are what they were before the line, so such a line     *)
(* inside an INPUT or EXPECTED body neither ends the body nor adds to it.  *)
C22_TypeAndTagsLeaveBlockAlone ==
    [][(Reading /\ NextLine # <<>> /\ NextLine[1] \in {KW_TYPE, KW_TAGS}) =>
          LET rest == Tail(NextLine)
          IN  /\ scan'.current_block = scan.current_block
              /\ scan'.block_content = scan.block_content
              /\ \A b \in Blocks : FieldOf(scan', b) = FieldOf(scan, b)
              /\ IF NextLine[1] = KW_TYPE
                 THEN /\ LowerCased(strip(rest), scan'.test_type)
                      /\ scan'.tags = scan.tags
                 ELSE /\ Len(scan'.tags) = Len(Entries(rest))
                      /\ \A k \in 1..Len(scan'.tags) :
                             scan'.tags[k] = strip(Entries(rest)[k])
                      /\ scan'.test_type = scan.test_type]_vars

C22_Witness ==
    /\ pc = "scanned"
    /\ content = SectionWith(<< <<SP, KW_INPUT, SP, "a", SP>>,
                                <<KW_TAGS, SP, "a", COMMA, SP, "b", COMMA, "a">>,
                                <<SP, "b", SP>> >>)
    /\ all_tests[1].input_data = <<"a", NL, "b">>
    /\ all_tests[1].tags = << <<"a">>, <<"b">>, <<"a">> >>

(* the lines below the name of the section being scanned, each trimmed *)
SectionLines ==
    LET below == Tail(split(strip(content), NL))
    IN  [k \in 1..Len(below) |-> strip(below[k])]

BeginsWith(line, kws) == line # <<>> /\ line[1] \in kws

(* the lines of the last block of keyword kw: the text on the keyword's    *)
(* own line, then the non-blank lines below it that begin with no keyword, *)
(* up to the next block keyword or the end of the section                  *)
LinesOfBlock(ls, kw) ==
    LET opens == {k \in 1..Len(ls) : BeginsWith(ls[k], {kw})}
        open == Max(opens)
        later == {k \in (open + 1)..Len(ls) : BeginsWith(ls[k], BlockKeywords)}
        end == IF later = {} THEN Len(ls) + 1 ELSE Min(later)
        inline == strip(Tail(ls[open]))
        below == {k \in (open + 1)..(end - 1) :
                     ls[k] # <<>> /\ ~BeginsWith(ls[k], FieldKeywords)}
        order == Ascending(below)
    IN  IF opens = {} THEN <<>>
        ELSE (IF inline = <<>> THEN <<>> ELSE <<inline>>)
                 \o [n \in 1..Len(order) |-> ls[order[n]]]

(* reading a blank line, or a non-blank line that begins with no keyword:  *)
(* the line joins the buffer of the active block, if there is one, and     *)
(* nothing else changes                                                    *)
PlainLineStep ==
    (Reading /\ ~BeginsWith(NextLine, FieldKeywords)) =>
        /\ scan'.block_content =
               IF NextLine # <<>> /\ scan.current_block # "None"
               THEN Append(scan.block_content, NextLine)
               ELSE scan.block_content
        /\ scan' = [scan EXCEPT !.block_content = scan'.block_content]
        /\ remaining' = Tail(remaining)
        /\ pc' = pc

(* the end of the section: the buffer of the active block is stored into   *)
(* its field, the other fields are kept                                    *)
LastFlushStep ==
    (pc = "scan" /\ remaining = <<>>) =>
        /\ pc' = "scanned"
        /\ \A b \in Blocks :
               FieldOf(scan', b) =
                   IF b = scan.current_block THEN strip(join(scan.block_content))
                   ELSE FieldOf(scan, b)

(* the TestCase returned carries, for each block keyword, the lines of its *)
(* block joined by newlines                                                *)
FieldsAreBlockLines ==
    pc = "scanned" =>
        /\ Len(all_tests) = 1
        /\ \A kw \in BlockKeywords :
               FieldOf(all_tests[1], BlockOf(kw)) = join(LinesOfBlock(SectionLines, kw))

(* C23: a non-blank line that begins with no keyword is appended, trimmed, *)
(* to the buffer of the active block and is dropped when no block is       *)
(* active; a blank line changes neither the block nor the buffer; at the   *)
(* end of the section the buffer of the last active block is stored into   *)
(* its field; so the value of a field is the non-blank lines of its block, *)
(* each trimmed, joined by newlines.                                       *)
C23_PlainLinesAccumulate ==
    /\ [][PlainLineStep /\ LastFlushStep]_vars
    /\ []FieldsAreBlockLines

C23_Witness ==
    /\ pc = "scanned"
    /\ content = SectionWith(<< <<SP, KW_INPUT, SP, "a", SP>>, <<SP>>, <<SP, "b", SP>> >>)
    /\ all_tests[1].input_data = <<"a", NL, "b">>

(* the section has no TAGS: line, or its last TAGS: line carries no tag *)
NoTagWritten(ls) ==
    LET tagLines == {k \in 1..Len(ls) : BeginsWith(ls[k], {KW_TAGS})}
    IN  tagLines = {} \/ strip(Tail(ls[Max(tagLines)])) = <<>>

(* C24: the tags of a parsed TestCase are an ordered set of trimmed        *)
(* strings, empty by default: no tag is the empty string or carries        *)
(* surrounding whitespace, no tag appears twice, and a section without a   *)
(* TAGS: line, or whose TAGS: line carries no tag, has no tags.            *)
C24_TagsAreAnOrderedSet ==
    pc = "scanned" =>
        LET tags == all_tests[1].tags
        IN  /\ \A k \in 1..Len(tags) : tags[k] = strip(tags[k]) /\ tags[k] # <<>>
            /\ \A j, k \in 1..Len(tags) : tags[j] = tags[k] => j = k
            /\ NoTagWritten(SectionLines) => tags = <<>>

(* the places where the characters '### TEST:' stand in a string; two of   *)
(* them never overlap, since no end of the delimiter is a beginning of it  *)
DelimiterPlaces(cs) ==
    LET d == Chars(DELIM)
    IN  {k \in 1..Len(cs) : k + Len(d) - 1 <= Len(cs) /\ SubSeq(cs, k, k + Len(d) - 1) = d}

(* the strings a TestCase carries *)
FieldTexts(tc) ==
    {tc.name, tc.description, tc.input_data, tc.expected_output, tc.test_type}
        \cup {tc.tags[j] : j \in 1..Len(tc.tags)}

(* C25: the delimiter is recognised wherever its characters occur in the   *)
(* file text, in the middle of a line and inside a body too: there are as  *)
(* many sections, each yielding its TestCase, as there are occurrences of  *)
(* '### TEST:' in the text, and no field of a parsed TestCase (name,       *)
(* description, input_data, expected_output, test_type, a tag) contains    *)
(* the characters '### TEST:'.                                             *)
C25_DelimiterRecognisedEverywhere ==
    pc # "parse" =>
        /\ Len(all_tests) = Cardinality(DelimiterPlaces(Expand(content)))
        /\ \A i \in 1..Len(all_tests) : \A f \in FieldTexts(all_tests[i]) :
               DelimiterPlaces(Expand(f)) = {}

C25_Witness ==
    /\ pc # "parse"
    /\ content = <<DELIM, "a", NL, KW_INPUT, "a", DELIM>>
    /\ Len(all_tests) = 2
    /\ all_tests[1].input_data = <<"a">>

====
